---- MODULE Spec2Model ----
(***************************************************************************)
(* MailPilot API (server.js): identity registry, daily quota ledger, the  *)
(* two JSON files behind them and the Express middleware chain in front.   *)
(*                                                                         *)
(* Conventions.  A JS string is a sequence of one-character strings, so   *)
(* that String.includes, concatenation and number formatting are computed *)
(* and not assumed.  A JS number is a tagged record (Num, INF, NAN), a JS *)
(* object used as a map is a function whose domain is its own keys, and   *)
(* property lookup (GetProp) falls back to Object.prototype as the        *)
(* language does.  The wall clock is the UTC day number `now`.            *)
(***************************************************************************)
EXTENDS Integers, Sequences, FiniteSets, Bags, TLC

VARIABLES
    now,        \* wall clock, as the number of the current UTC day
    users,      \* server.js:34  in-memory { byKey, byEmail }
    usage,      \* server.js:36  in-memory { "userId:YYYY-MM-DD": count }
    diskUsers,  \* content of data/users.json
    diskUsage,  \* content of data/usage.json
    minted,     \* number of random draws made so far (api keys, uuids)
    pending,    \* handlers suspended at `await <downstream call>`
    calls,      \* history: checkAndIncrement calls made, per usage key
    charged,    \* history: calls that returned allowed=true, per usage key
    issued,     \* history: what registerUser first returned, per email
    faults      \* history: number of failed file writes

vars == <<now, users, usage, diskUsers, diskUsage, minted, pending,
          calls, charged, issued, faults>>

----------------------------------------------------------------------------
(* Bounds of the model *)

MaxDay == 2
MaxMint == 2
MaxInflight == 1
MaxBurst == 3
BurstLeft == 2
MaxExtra == 2
MaxOtherCalls == 1
MaxFaults == 1
MaxFaultCalls == 2

----------------------------------------------------------------------------
(* JS values *)

\* Values of object type are records; values of string type are sequences.
\* undefined, null and an inherited member are given once for each type, the
\* string-typed ones as one-element sequences no JS string equals.
Undefined == [t |-> "undefined"]
Null == [t |-> "null"]
\* a member inherited from Object.prototype (valueOf, toString, ...)
ProtoMember == [t |-> "function"]
UndefinedStr == <<"(undefined)">>
ProtoMemberStr == <<"(function)">>

Num(n) == [k |-> "num", v |-> n]
INF == [k |-> "Infinity", v |-> 0]
NAN == [k |-> "NaN", v |-> 0]
UNDEF == [k |-> "undefined", v |-> 0]

Digit(d) ==
    CASE d = 0 -> "0" [] d = 1 -> "1" [] d = 2 -> "2" [] d = 3 -> "3"
      [] d = 4 -> "4" [] d = 5 -> "5" [] d = 6 -> "6" [] d = 7 -> "7"
      [] d = 8 -> "8" [] d = 9 -> "9"

RECURSIVE Decimal(_)
Decimal(n) == IF n < 10 THEN <<Digit(n)>>
              ELSE Decimal(n \div 10) \o <<Digit(n % 10)>>

\* String(x) for a JS number
JsString(x) ==
    CASE x.k = "num" -> IF x.v < 0 THEN <<"-">> \o Decimal(-x.v) ELSE Decimal(x.v)
      [] x.k = "Infinity" -> <<"I","n","f","i","n","i","t","y">>
      [] x.k = "NaN" -> <<"N","a","N">>
      [] x.k = "undefined" -> <<"u","n","d","e","f","i","n","e","d">>

\* String.prototype.includes for a one-character needle
includes(s, c) == \E i \in 1..Len(s) : s[i] = c

\* the names every plain object inherits from Object.prototype
ObjectPrototypeKeys ==
    { <<"_","_","d","e","f","i","n","e","G","e","t","t","e","r","_","_">>,
      <<"_","_","d","e","f","i","n","e","S","e","t","t","e","r","_","_">>,
      <<"_","_","l","o","o","k","u","p","G","e","t","t","e","r","_","_">>,
      <<"_","_","l","o","o","k","u","p","S","e","t","t","e","r","_","_">>,
      <<"_","_","p","r","o","t","o","_","_">>,
      <<"c","o","n","s","t","r","u","c","t","o","r">>,
      <<"h","a","s","O","w","n","P","r","o","p","e","r","t","y">>,
      <<"i","s","P","r","o","t","o","t","y","p","e","O","f">>,
      <<"p","r","o","p","e","r","t","y","I","s","E","n","u","m","e","r","a","b","l","e">>,
      <<"t","o","L","o","c","a","l","e","S","t","r","i","n","g">>,
      <<"t","o","S","t","r","i","n","g">>,
      <<"v","a","l","u","e","O","f">> }

\* obj[k] on a plain object whose own values are objects
GetProp(obj, k) ==
    IF k \in DOMAIN obj THEN obj[k]
    ELSE IF k \in ObjectPrototypeKeys THEN ProtoMember
    ELSE Undefined

\* obj[k] on a plain object whose own values are strings
GetStr(obj, k) ==
    IF k \in DOMAIN obj THEN obj[k]
    ELSE IF k \in ObjectPrototypeKeys THEN ProtoMemberStr
    ELSE UndefinedStr

\* x.f for a string-valued field f: undefined when x has no such field
Field(x, f) == IF f \in DOMAIN x THEN x[f] ELSE UndefinedStr

\* truthiness of an object-typed and of a string-typed value
Truthy(x) == x # Undefined /\ x # Null
TruthyStr(s) == s # UndefinedStr /\ s # <<>>

\* obj with obj[k] = v assigned
SetProp(obj, k, v) == [x \in DOMAIN obj \cup {k} |-> IF x = k THEN v ELSE obj[x]]

EmptyObject == <<>>

----------------------------------------------------------------------------
(* Config *)

LimitFree == 10
UnlimitedRemaining == 9999

\* LIMITS[plan]
LIMITS(plan) ==
    IF plan = <<"f","r","e","e">> THEN Num(LimitFree)
    ELSE IF plan = <<"p","r","o">> THEN INF
    ELSE UNDEF

PlanFree == <<"f","r","e","e">>
PlanPro == <<"p","r","o">>

----------------------------------------------------------------------------
(* JSON storage.  A file is [exists, ok, data]: absent, unparsable or the  *)
(* parsed mapping.                                                         *)

NoFile == [exists |-> FALSE, ok |-> FALSE, data |-> EmptyObject]
FileOf(data) == [exists |-> TRUE, ok |-> TRUE, data |-> data]

loadJSON(file, fallback) == IF file.exists /\ file.ok THEN file.data ELSE fallback

saveJSON(data) == FileOf(data)

\* what a writeFileSync that throws leaves behind: the file as it was (the
\* open failed) or a truncated, unparsable file (the write failed midway)
WriteFailures == {"untouched", "truncated"}
Truncated == [exists |-> TRUE, ok |-> FALSE, data |-> EmptyObject]
FailedWrite(file, outcome) == IF outcome = "untouched" THEN file ELSE Truncated

EmptyUsers == [byKey |-> EmptyObject, byEmail |-> EmptyObject]

----------------------------------------------------------------------------
(* Auth *)

\* 'mp_' + hex of the n-th draw of randomBytes
generateApiKey(n) == <<"m","p","_">> \o Decimal(n)

\* the n-th draw of uuidv4
uuidv4(n) == <<"i","d","-">> \o Decimal(n)

\* a date read once at startup instead of per call
todayStrFrozen(d) == <<"D">> \o Decimal(1)

\* new Date().toISOString().slice(0, 10), the calendar left abstract
todayStr(d) == <<"D">> \o Decimal(d)

\* new Date().toISOString(): only its date part is modelled
toISOString(d) == todayStr(d) \o <<"T">>

\* a registerUser that never looks the email up
HasExistingNever(u, email) == FALSE

\* registerUser(email) finds an existing, complete registration
HasExisting(u, email) ==
    /\ TruthyStr(GetStr(u.byEmail, email))
    /\ Truthy(GetProp(u.byKey, GetStr(u.byEmail, email)))

NewUser(n, email, d) ==
    [userId |-> uuidv4(n), email |-> email, plan |-> PlanFree,
     createdAt |-> toISOString(d)]

\* a registerUser that forgets line 56
RegisteredKeyOnly(u, n, email, d) ==
    [byKey |-> SetProp(u.byKey, generateApiKey(n), NewUser(n, email, d)),
     byEmail |-> u.byEmail]

\* the registry after lines 55-56
Registered(u, n, email, d) ==
    [byKey |-> SetProp(u.byKey, generateApiKey(n), NewUser(n, email, d)),
     byEmail |-> SetProp(u.byEmail, email, generateApiKey(n))]

\* the value registerUser returns
RegisterResult(u, n, email, d) ==
    IF HasExisting(u, email)
    THEN [apiKey |-> GetStr(u.byEmail, email),
          user |-> GetProp(u.byKey, GetStr(u.byEmail, email))]
    ELSE [apiKey |-> generateApiKey(n), user |-> NewUser(n, email, d)]

OrNull(x) == IF Truthy(x) THEN x ELSE Null

validateApiKey(u, apiKey) ==
    IF includes(apiKey, "@")
    THEN IF ~TruthyStr(GetStr(u.byEmail, apiKey)) THEN Null
         ELSE OrNull(GetProp(u.byKey, GetStr(u.byEmail, apiKey)))
    ELSE OrNull(GetProp(u.byKey, apiKey))

----------------------------------------------------------------------------
(* Rate limiting *)

\* epoch seconds of the UTC midnight that ends day d
endOfDayUnix(d) == (d + 1) * 86400

\* a counter key built from the date alone
usageKeyShared(user, d) == todayStr(d)

\* `${user.userId}:${todayStr()}`
TemplateStr(x) == IF x = UndefinedStr THEN JsString(UNDEF) ELSE x
usageKey(user, d) == TemplateStr(Field(user, "userId")) \o <<":">> \o todayStr(d)

\* usage[key] || 0
Used(ug, key) == IF key \in DOMAIN ug THEN ug[key] ELSE 0

\* an off-by-one check, used <= limit
AllowedLe(used, limit) ==
    \/ limit.k = "num" /\ used <= limit.v
    \/ limit.k = "Infinity"

\* used < limit
Allowed(used, limit) ==
    \/ limit.k = "num" /\ used < limit.v
    \/ limit.k = "Infinity"

Max(a, b) == IF a > b THEN a ELSE b

\* Math.max(0, limit - used); NaN when limit is not a number
MaxZeroDiff(limit, used) ==
    IF limit.k = "num" THEN Num(Max(0, limit.v - used)) ELSE NAN

\* line 84
RemainingBefore(limit, used) ==
    IF limit = INF THEN Num(UnlimitedRemaining) ELSE MaxZeroDiff(limit, used)

MinusOne(x) == IF x.k = "num" THEN Num(x.v - 1) ELSE x

Unlimited == <<"u","n","l","i","m","i","t","e","d">>

\* lines 85-89
RateHeaders(limit, remaining, resetAt) ==
    [h \in {"X-RateLimit-Limit", "X-RateLimit-Remaining", "X-RateLimit-Reset"} |->
        CASE h = "X-RateLimit-Limit" ->
                IF limit = INF THEN Unlimited ELSE JsString(limit)
          [] h = "X-RateLimit-Remaining" -> JsString(remaining)
          [] h = "X-RateLimit-Reset" -> JsString(Num(resetAt))]

\* limit === Infinity ? -1 : limit
ReportedLimit(limit) == IF limit = INF THEN Num(-1) ELSE limit

\* the remaining field of the value returned at line 94
ReportedRemaining(allowed, remaining) ==
    IF allowed THEN MinusOne(remaining) ELSE remaining

\* an increment written back from a count read before an `await`: lost
\* whenever another request is in flight
IncrementedRacy(ug, key, used, allowed) ==
    IF allowed /\ pending = EmptyBag THEN SetProp(ug, key, used + 1) ELSE ug

\* an increment outside the `if (allowed)`
IncrementedAlways(ug, key, used, allowed) == SetProp(ug, key, used + 1)

\* the usage map after lines 90-93
Incremented(ug, key, used, allowed) ==
    IF allowed THEN SetProp(ug, key, used + 1) ELSE ug

\* the value checkAndIncrement(user) returns; d1 is the day todayStr() read,
\* d2 the day endOfDayUnix() read
Decision(ug, user, d1, d2) ==
    LET key == usageKey(user, d1)
        limit == LIMITS(Field(user, "plan"))
        resetAt == endOfDayUnix(d2)
        used == Used(ug, key)
        allowed == Allowed(used, limit)
        remaining == RemainingBefore(limit, used)
    IN [key |-> key,
        allowed |-> allowed,
        used |-> IF allowed THEN used + 1 ELSE used,
        limit |-> ReportedLimit(limit),
        remaining |-> ReportedRemaining(allowed, remaining),
        resetAt |-> resetAt,
        headers |-> RateHeaders(limit, remaining, resetAt)]

\* a snapshot computed the way the decision is: remaining less one
getUsageAsDecision(ug, user, d1, d2) ==
    [key |-> usageKey(user, d1),
     plan |-> Field(user, "plan"),
     used_today |-> Used(ug, usageKey(user, d1)),
     limit |-> ReportedLimit(LIMITS(Field(user, "plan"))),
     remaining |-> MinusOne(MaxZeroDiff(LIMITS(Field(user, "plan")),
                                        Used(ug, usageKey(user, d1)))),
     resets_at |-> endOfDayUnix(d2)]

\* the value getUsage(user) returns
getUsage(ug, user, d1, d2) ==
    LET key == usageKey(user, d1)
        used == Used(ug, key)
        limit == LIMITS(Field(user, "plan"))
    IN [key |-> key,
        plan |-> Field(user, "plan"),
        used_today |-> used,
        limit |-> ReportedLimit(limit),
        remaining |-> IF limit = INF THEN Num(-1) ELSE MaxZeroDiff(limit, used),
        resets_at |-> endOfDayUnix(d2)]

----------------------------------------------------------------------------
(* Express app: what each route answers.  A reply is the response sent;    *)
(* status 0 stands for a handler suspended at `await`, nothing sent yet.   *)

Reply(status, code, hdr, body) ==
    [status |-> status, code |-> code, hdr |-> hdr, body |-> body]

NoHeaders == EmptyObject
Suspended == Reply(0, "", NoHeaders, EmptyObject)

\* line 176
ValidEmail(email) == TruthyStr(email) /\ includes(email, "@")

\* POST /api/auth/register, lines 174-179
registerRoute(u, n, email, d) ==
    IF ~ValidEmail(email)
    THEN Reply(400, "INVALID_REQUEST", NoHeaders, EmptyObject)
    ELSE Reply(200, "", NoHeaders,
               [api_key |-> RegisterResult(u, n, email, d).apiKey,
                plan |-> RegisterResult(u, n, email, d).user.plan])

\* authMiddleware lets the request through, lines 183-188
Authenticated(u, apiKey) == TruthyStr(apiKey) /\ Truthy(validateApiKey(u, apiKey))

Reply401 == Reply(401, "UNAUTHORIZED", NoHeaders, EmptyObject)

\* GET /api/usage, lines 192-194
usageRoute(u, ug, apiKey, d1, d2) ==
    IF ~Authenticated(u, apiKey) THEN Reply401
    ELSE Reply(200, "", NoHeaders, getUsage(ug, validateApiKey(u, apiKey), d1, d2))

\* req.body: text fields as strings, messages as the array's length
EmptyBody == [subject |-> <<>>, text |-> <<>>, tone |-> <<>>, messages |-> 0]
FullBody == [subject |-> <<"s">>, text |-> <<"t">>, tone |-> <<"d">>, messages |-> 1]
TextOnlyBody == [subject |-> <<"s">>, text |-> <<"t">>, tone |-> <<>>, messages |-> 0]

\* the handlers' checks at lines 210, 220 and 230
ValidBody(route, body) ==
    CASE route = "generate" -> TruthyStr(body.subject)
      [] route = "rewrite" -> TruthyStr(body.text) /\ TruthyStr(body.tone)
      [] route = "summarize" -> body.messages # 0

\* the reply of a handler that returns before its `await`, lines 210, 220, 230
HandlerReply(route, body, rateHeaders) ==
    IF ~ValidBody(route, body)
    THEN Reply(400, "INVALID_REQUEST", NoHeaders, EmptyObject)
    ELSE Suspended

\* rateLimitMiddleware and the handler up to its `await`, lines 197-205
RateLimitReply(route, body, dec) ==
    IF ~dec.allowed
    THEN Reply(429, "RATE_LIMIT_EXCEEDED", dec.headers, [retry_after |-> 3600])
    ELSE HandlerReply(route, body, dec.headers)

\* POST /api/generate, /api/rewrite, /api/summarize up to the `await`
gatedRoute(u, ug, route, apiKey, body, d1, d2) ==
    IF ~Authenticated(u, apiKey) THEN Reply401
    ELSE RateLimitReply(route, body, Decision(ug, validateApiKey(u, apiKey), d1, d2))

\* the rest of a handler once the downstream call settled, lines 212-214
DownstreamReply(rateHeaders, resolved) ==
    IF resolved THEN Reply(200, "", rateHeaders, [result |-> TRUE])
    ELSE Reply(500, "INTERNAL_ERROR", NoHeaders, EmptyObject)

\* Express's default error handler, for a middleware or route that throws
ThrownReply == Reply(500, "", NoHeaders, EmptyObject)

----------------------------------------------------------------------------
(* Inputs *)

EmailA == <<"a","@","x">>
EmailB == <<"b","@","x">>
EmailP == <<"p","@","x">>

\* the account a billing process provisioned before the server started
ProKey == <<"m","p","_","0">>
ProUser == [userId |-> uuidv4(0), email |-> EmailP, plan |-> PlanPro,
            createdAt |-> toISOString(0)]
ProvisionedUsers ==
    [byKey |-> SetProp(EmptyObject, ProKey, ProUser),
     byEmail |-> SetProp(EmptyObject, EmailP, ProKey)]

\* req.body.email of POST /api/auth/register; "" also stands for no email
RegisterInputs == { EmailA, EmailB, <<>>, <<"n","o","p","e">> }

Routes == {"generate", "rewrite", "summarize"}

\* values of the X-API-Key header, UndefinedStr for a request without one
KeyInputs ==
    { generateApiKey(n) : n \in 1..MaxMint }
      \cup { ProKey, EmailA, EmailP, <<"z","@","x">>,
             <<"v","a","l","u","e","O","f">>,
             <<"c","o","n","s","t","r","u","c","t","o","r">>, UndefinedStr }

Bodies == { EmptyBody, FullBody, TextOnlyBody }

\* days the second clock read of a call can return
LaterReads == { d \in {now, now + 1} : d <= MaxDay }

RECURSIVE SumCalls(_)
SumCalls(keys) ==
    IF keys = {} THEN 0
    ELSE LET k == CHOOSE x \in keys : TRUE IN calls[k] + SumCalls(keys \ {k})

\* bound of the model: the account of a@x may issue LimitFree + MaxExtra
\* quota-gated requests, all other callers together MaxOtherCalls
HeavyKeys == { usageKey(users.byKey[k], d) :
                 k \in { x \in DOMAIN users.byKey : users.byKey[x].email = EmailA },
                 d \in 1..MaxDay }
WithinBudget(user) ==
    IF Field(user, "email") = EmailA
    THEN SumCalls(DOMAIN calls \cap HeavyKeys) < LimitFree + MaxExtra
    ELSE SumCalls(DOMAIN calls \ HeavyKeys) < MaxOtherCalls

Bump(h, key) == SetProp(h, key, Used(h, key) + 1)

----------------------------------------------------------------------------
Init ==
    /\ now = 1
    /\ diskUsers = FileOf(ProvisionedUsers)
    /\ diskUsage = NoFile
    /\ users = loadJSON(diskUsers, EmptyUsers)
    /\ usage = loadJSON(diskUsage, EmptyObject)
    /\ minted = 0
    /\ pending = EmptyBag
    /\ calls = EmptyObject
    /\ charged = EmptyObject
    /\ issued = EmptyObject
    /\ faults = 0

\* POST /api/auth/register answering 400, line 176
RegisterInvalid(email) ==
    /\ registerRoute(users, minted + 1, email, now).status = 400
    /\ UNCHANGED vars

\* POST /api/auth/register for an email registerUser finds, lines 48-52
RegisterExisting(email) ==
    /\ ValidEmail(email)
    /\ HasExisting(users, email)
    /\ issued' = IF email \in DOMAIN issued THEN issued
                 ELSE SetProp(issued, email, RegisterResult(users, minted + 1, email, now))
    /\ UNCHANGED <<now, users, usage, diskUsers, diskUsage, minted, pending,
                   calls, charged, faults>>

\* POST /api/auth/register minting an account, lines 53-58
RegisterNew(email) ==
    /\ ValidEmail(email)
    /\ ~HasExisting(users, email)
    /\ minted < MaxMint
    /\ users' = Registered(users, minted + 1, email, now)
    /\ diskUsers' = saveJSON(users')
    /\ minted' = minted + 1
    /\ issued' = IF email \in DOMAIN issued THEN issued
                 ELSE SetProp(issued, email, RegisterResult(users, minted + 1, email, now))
    /\ UNCHANGED <<now, usage, diskUsage, pending, calls, charged, faults>>

\* a request authMiddleware answers with 401, lines 184 and 186
Unauthorized(apiKey) ==
    /\ ~Authenticated(users, apiKey)
    /\ UNCHANGED vars

\* GET /api/usage, lines 192-194; its two clock reads may straddle midnight
UsageOk(apiKey, d2) ==
    /\ Authenticated(users, apiKey)
    /\ now' = d2
    /\ UNCHANGED <<users, usage, diskUsers, diskUsage, minted, pending,
                   calls, charged, issued, faults>>

\* the ledger after checkAndIncrement(req.user), the file write succeeding
Consume(apiKey, d2) ==
    LET user == validateApiKey(users, apiKey)
        dec == Decision(usage, user, now, d2)
    IN /\ Authenticated(users, apiKey)
       /\ WithinBudget(user)
       /\ now' = d2
       /\ usage' = Incremented(usage, dec.key, Used(usage, dec.key), dec.allowed)
       /\ diskUsage' = IF dec.allowed THEN saveJSON(usage') ELSE diskUsage
       /\ calls' = Bump(calls, dec.key)
       /\ charged' = IF dec.allowed THEN Bump(charged, dec.key) ELSE charged
       /\ UNCHANGED <<users, diskUsers, minted, issued, faults>>

\* the request object a suspended handler holds: req.user and
\* req.rateHeaders; key and slot are history, the counter it was charged to
\* and the count it was admitted at
Request(user, dec) ==
    [user |-> user, rateHeaders |-> dec.headers,
     key |-> dec.key, slot |-> dec.used - 1]

\* a quota-gated request answered before any `await`: 429 or 400
GatedAnswered(route, apiKey, body, d2) ==
    /\ gatedRoute(users, usage, route, apiKey, body, now, d2).status \in {429, 400}
    /\ UNCHANGED pending

\* a quota-gated request whose handler reaches its `await`
GatedAccepted(route, apiKey, body, d2) ==
    /\ gatedRoute(users, usage, route, apiKey, body, now, d2) = Suspended
    /\ pending' = pending (+) SetToBag({
           Request(validateApiKey(users, apiKey),
                   Decision(usage, validateApiKey(users, apiKey), now, d2)) })

\* POST /api/generate, /api/rewrite, /api/summarize past authMiddleware, with
\* at most `inflight` handlers suspended at a time
GatedUpTo(inflight, apiKey, d2) ==
    /\ Consume(apiKey, d2)
    /\ \E route \in Routes, body \in Bodies :
          \/ GatedAnswered(route, apiKey, body, d2)
          \/ /\ BagCardinality(pending) < inflight
             /\ GatedAccepted(route, apiKey, body, d2)

Gated(apiKey, d2) == GatedUpTo(MaxInflight, apiKey, d2)

\* a handler that gives the request back to the quota when it is done
DownstreamRefund(p) ==
    /\ pending' = pending (-) SetToBag({p})
    /\ usage' = SetProp(usage, p.key, Used(usage, p.key) - 1)
    /\ diskUsage' = saveJSON(usage')
    /\ UNCHANGED <<now, users, diskUsers, minted, calls, charged, issued, faults>>

\* the downstream call of a suspended handler settles, lines 212-214
Downstream(p) ==
    /\ pending' = pending (-) SetToBag({p})
    /\ UNCHANGED <<now, users, usage, diskUsers, diskUsage, minted,
                   calls, charged, issued, faults>>

\* UTC midnight passes
Tick ==
    /\ now < MaxDay
    /\ now' = now + 1
    /\ UNCHANGED <<users, usage, diskUsers, diskUsage, minted, pending,
                   calls, charged, issued, faults>>

\* the process is stopped and started again, lines 34 and 36
Restart ==
    /\ users' = loadJSON(diskUsers, EmptyUsers)
    /\ usage' = loadJSON(diskUsage, EmptyObject)
    /\ pending' = EmptyBag
    /\ UNCHANGED <<now, diskUsers, diskUsage, minted, calls, charged, issued, faults>>

Next ==
    \/ \E email \in RegisterInputs : RegisterInvalid(email)
    \/ \E email \in RegisterInputs : RegisterExisting(email)
    \/ \E email \in RegisterInputs : RegisterNew(email)
    \/ \E apiKey \in KeyInputs : Unauthorized(apiKey)
    \/ \E apiKey \in KeyInputs, d2 \in LaterReads : UsageOk(apiKey, d2)
    \/ \E apiKey \in KeyInputs, d2 \in LaterReads : Gated(apiKey, d2)
    \/ \E p \in BagToSet(pending) : Downstream(p)
    \/ Tick
    \/ Restart

Spec == Init /\ [][Next]_vars

----------------------------------------------------------------------------
(* The same server on a medium whose writes can fail *)

\* POST /api/auth/register when persistUsers() throws at line 57: lines 55-56
\* have run, nothing is returned, Express answers ThrownReply
RegisterWriteFails(email, outcome) ==
    /\ ValidEmail(email)
    /\ ~HasExisting(users, email)
    /\ minted < MaxMint
    /\ faults < MaxFaults
    /\ users' = Registered(users, minted + 1, email, now)
    /\ diskUsers' = FailedWrite(diskUsers, outcome)
    /\ minted' = minted + 1
    /\ faults' = faults + 1
    /\ UNCHANGED <<now, usage, diskUsage, pending, calls, charged, issued>>

\* a quota-gated request when persistUsage() throws at line 92: line 91 has
\* run, checkAndIncrement returns nothing, Express answers ThrownReply
GatedWriteFails(apiKey, d2, outcome) ==
    LET user == validateApiKey(users, apiKey)
        dec == Decision(usage, user, now, d2)
    IN /\ Authenticated(users, apiKey)
       /\ WithinBudget(user)
       /\ dec.allowed
       /\ faults < MaxFaults
       /\ now' = d2
       /\ usage' = Incremented(usage, dec.key, Used(usage, dec.key), dec.allowed)
       /\ diskUsage' = FailedWrite(diskUsage, outcome)
       /\ calls' = Bump(calls, dec.key)
       /\ faults' = faults + 1
       /\ UNCHANGED <<users, diskUsers, minted, pending, charged, issued>>

\* bound of the model: quota-gated requests issued on the failing medium
LightLoad == SumCalls(DOMAIN calls) < MaxFaultCalls

NextFault ==
    \/ \E email \in RegisterInputs : RegisterInvalid(email)
    \/ \E email \in RegisterInputs : RegisterExisting(email)
    \/ \E email \in RegisterInputs : RegisterNew(email)
    \/ \E apiKey \in KeyInputs : Unauthorized(apiKey)
    \/ \E apiKey \in KeyInputs, d2 \in LaterReads : UsageOk(apiKey, d2)
    \/ \E apiKey \in KeyInputs, d2 \in LaterReads : LightLoad /\ Gated(apiKey, d2)
    \/ \E p \in BagToSet(pending) : Downstream(p)
    \/ Tick
    \/ Restart
    \/ \E email \in RegisterInputs, outcome \in WriteFailures :
          RegisterWriteFails(email, outcome)
    \/ \E apiKey \in KeyInputs, d2 \in LaterReads, outcome \in WriteFailures :
          LightLoad /\ GatedWriteFails(apiKey, d2, outcome)

SpecFault == Init /\ [][NextFault]_vars

----------------------------------------------------------------------------
(* The server started on files a previous run left: the account of a@x has *)
(* BurstLeft requests of day 1 left, and a burst of requests arrives        *)

StoredUsers == Registered(ProvisionedUsers, 1, EmailA, 1)
StoredUsage ==
    SetProp(EmptyObject, usageKey(NewUser(1, EmailA, 1), 1), LimitFree - BurstLeft)

InitBurst ==
    /\ now = 1
    /\ diskUsers = FileOf(StoredUsers)
    /\ diskUsage = FileOf(StoredUsage)
    /\ users = loadJSON(diskUsers, EmptyUsers)
    /\ usage = loadJSON(diskUsage, EmptyObject)
    /\ minted = 1
    /\ pending = EmptyBag
    /\ calls = EmptyObject
    /\ charged = EmptyObject
    /\ issued = EmptyObject
    /\ faults = 0

NextBurst ==
    \/ \E apiKey \in KeyInputs, d2 \in LaterReads : GatedUpTo(MaxBurst, apiKey, d2)
    \/ \E p \in BagToSet(pending) : Downstream(p)
    \/ Tick

SpecBurst == InitBurst /\ [][NextBurst]_vars

----------------------------------------------------------------------------
(* Properties *)

Accounts == { users.byKey[k] : k \in DOMAIN users.byKey }
FreeAccounts == { u \in Accounts : u.plan = PlanFree }
ProAccounts == { u \in Accounts : u.plan = PlanPro }

\* the counter of (accountId, day), written out independently of usageKey
DayKey(user, d) == user.userId \o <<":">> \o <<"D">> \o Decimal(d)
Days == 1..MaxDay

Min(a, b) == IF a < b THEN a ELSE b

HasRateHeaders(reply) ==
    {"X-RateLimit-Limit", "X-RateLimit-Remaining", "X-RateLimit-Reset"}
        \subseteq DOMAIN reply.hdr

\* C1: for a free-plan account, of the calls made on one UTC day exactly the
\* first LimitFree returned allowed=true; the next call is allowed exactly
\* when fewer than LimitFree were made, and otherwise it is denied with
\* remaining 0 and answered 429 with X-RateLimit-Remaining: 0, while the
\* LimitFree-th call with a valid body is let through to its handler.
C1_QuotaFirstLAllowed ==
    \A u \in FreeAccounts :
        /\ \A d \in Days :
              Used(charged, DayKey(u, d)) = Min(Used(calls, DayKey(u, d)), LimitFree)
        /\ \A d2 \in LaterReads :
              LET n == Used(calls, DayKey(u, now))
                  dec == Decision(usage, u, now, d2)
                  reply == RateLimitReply("generate", FullBody, dec)
              IN /\ dec.allowed <=> n < LimitFree
                 /\ n < LimitFree => reply = Suspended
                 /\ n >= LimitFree =>
                       /\ dec.remaining = Num(0)
                       /\ reply.status = 429
                       /\ reply.hdr["X-RateLimit-Remaining"] = <<"0">>

\* an account made LimitFree + 1 calls on one day: LimitFree allowed, one denied
C1_Witness ==
    \E u \in FreeAccounts, d \in Days :
        /\ Used(calls, DayKey(u, d)) = LimitFree + 1
        /\ Used(charged, DayKey(u, d)) = LimitFree

InFlight(key) == { p \in BagToSet(pending) : p.key = key }

\* what the account had left of the day when the process started
LeftAtStart(key) == LimitFree - Used(loadJSON(FileOf(StoredUsage), EmptyObject), key)

\* C2: of N requests of a free-plan account and one day that arrive while
\* earlier ones are still in flight, with R requests left, exactly min(N, R)
\* pass the quota check and the others are denied, in every interleaving;
\* the requests in flight were each admitted at a count of their own below
\* the limit.
C2_ConcurrentNeverOverLimit ==
    \A u \in FreeAccounts, d \in Days :
        LET key == DayKey(u, d) IN
        /\ Used(charged, key) = Min(Used(calls, key), LeftAtStart(key))
        /\ Cardinality(InFlight(key)) <= LeftAtStart(key)
        /\ \A p \in InFlight(key) :
              /\ CopiesIn(p, pending) = 1
              /\ p.slot < LimitFree
              /\ p.slot >= LimitFree - LeftAtStart(key)
              /\ \A q \in InFlight(key) : q.slot = p.slot => q = p

\* more requests arrived than the account had left: those admitted are all
\* still in flight, on the last slots of the day, and the others were denied
C2_Witness ==
    \E u \in FreeAccounts, d \in Days :
        LET key == DayKey(u, d) IN
        /\ LeftAtStart(key) = BurstLeft
        /\ Cardinality(InFlight(key)) = BurstLeft
        /\ Used(calls, key) >= BurstLeft + 2

\* C3: registerUser answers every later call for an email with what it
\* returned the first time (same credential, accountId, plan, createdAt),
\* the route returns that credential, and one account is stored for the email.
C3_RegisterIdempotent ==
    \A email \in DOMAIN issued :
        /\ RegisterResult(users, minted + 1, email, now) = issued[email]
        /\ registerRoute(users, minted + 1, email, now).body.api_key
              = issued[email].apiKey
        /\ Cardinality({ k \in DOMAIN users.byKey : users.byKey[k].email = email }) = 1
        /\ Cardinality({ e \in DOMAIN users.byEmail : e = email }) = 1

\* both emails are registered, the second on a later day than the first, and
\* quota has been consumed in between
C3_Witness ==
    /\ DOMAIN issued = {EmailA, EmailB}
    /\ issued[EmailA].user.createdAt # issued[EmailB].user.createdAt
    /\ DOMAIN charged # {}

Credentials == DOMAIN users.byKey
RegisteredEmails == DOMAIN users.byEmail

\* C4: the credential and the email of every registered account resolve to
\* that account, and every other string resolves to null.
C4_ResolveExact ==
    /\ \A k \in Credentials : validateApiKey(users, k) = users.byKey[k]
    /\ \A e \in RegisteredEmails :
          validateApiKey(users, e) = users.byKey[users.byEmail[e]]
    /\ \A s \in KeyInputs \ {UndefinedStr} :
          s \notin Credentials \cup RegisteredEmails => validateApiKey(users, s) = Null

\* the account whose counter a usage key is
LimitOfKey(key) ==
    LET owners == { u \in Accounts : \E d \in Days : DayKey(u, d) = key }
    IN IF owners = {} THEN UNDEF ELSE LIMITS((CHOOSE u \in owners : TRUE).plan)

C5_Step ==
    /\ \A key \in DOMAIN usage :
          key \in DOMAIN usage' /\ usage'[key] >= usage[key]
    /\ \A key \in DOMAIN usage' :
          LimitOfKey(key).k = "num" =>
              /\ usage'[key] <= LimitOfKey(key).v
              /\ Used(usage, key) >= LimitOfKey(key).v => usage'[key] = Used(usage, key)
    /\ (calls' # calls /\ charged' = charged) => usage' = usage

\* C5: no step lowers a usage counter, no step raises a counter that is at
\* the limit of its account's plan, and a denied call changes no counter.
C5_CounterMonotoneCapped == [][C5_Step]_vars

\* a counter stands at the limit after a call on it was denied
C5_Witness ==
    \E key \in DOMAIN usage :
        /\ LimitOfKey(key).k = "num"
        /\ usage[key] = LimitOfKey(key).v
        /\ Used(calls, key) > Used(charged, key)

\* C6: when a free-plan account's counter of the previous day is at the limit
\* and no call was made today, the next call is allowed, counts 1 on today's
\* counter and leaves the previous day's counter at the limit.
C6_DailyReset ==
    \A u \in FreeAccounts, d2 \in LaterReads :
        (/\ now > 1
         /\ Used(usage, DayKey(u, now - 1)) = LimitFree
         /\ Used(calls, DayKey(u, now)) = 0)
        => LET dec == Decision(usage, u, now, d2)
               after == Incremented(usage, dec.key, Used(usage, dec.key), dec.allowed)
           IN /\ dec.allowed
              /\ dec.used = 1
              /\ Used(after, DayKey(u, now)) = 1
              /\ Used(after, DayKey(u, now - 1)) = LimitFree

\* the day after the limit was reached the account was served once
C6_Witness ==
    \E u \in FreeAccounts :
        /\ now > 1
        /\ Used(usage, DayKey(u, now - 1)) = LimitFree
        /\ Used(usage, DayKey(u, now)) = 1
        /\ Used(charged, DayKey(u, now)) = 1

\* C7: a pro-plan account is always allowed, and limit and remaining are
\* reported with the unbounded marker (-1 in the decision and the snapshot,
\* "unlimited" in the headers), never as a finite count.
C7_ProUnbounded ==
    \A u \in ProAccounts, d2 \in LaterReads :
        LET dec == Decision(usage, u, now, d2)
            snap == getUsage(usage, u, now, d2)
        IN /\ dec.allowed
           /\ dec.limit = Num(-1)
           /\ dec.remaining = Num(-1)
           /\ dec.headers["X-RateLimit-Limit"] = Unlimited
           /\ dec.headers["X-RateLimit-Remaining"] = Unlimited
           /\ snap.limit = Num(-1)
           /\ snap.remaining = Num(-1)

\* C8: what register and an allowed checkAndIncrement returned to their
\* callers is in the files: a fresh load holds every issued credential with
\* its account and at least every charged increment.
C8_Durable ==
    LET u == loadJSON(diskUsers, EmptyUsers)
        ug == loadJSON(diskUsage, EmptyObject)
    IN /\ \A email \in DOMAIN issued :
             /\ GetStr(u.byEmail, email) = issued[email].apiKey
             /\ GetProp(u.byKey, issued[email].apiKey) = issued[email].user
       /\ \A key \in DOMAIN charged : Used(ug, key) >= charged[key]

\* C9: a request answered 400 INVALID_REQUEST changed no state; on the
\* quota-gated routes it left the usage counters as they were.
C9_InvalidRequestNoMutation ==
    [][ \A route \in Routes, apiKey \in KeyInputs, body \in Bodies, d2 \in LaterReads :
          (/\ gatedRoute(users, usage, route, apiKey, body, now, d2).status = 400
           /\ Consume(apiKey, d2)
           /\ GatedAnswered(route, apiKey, body, d2))
          => usage' = usage /\ diskUsage' = diskUsage ]_vars

\* C10: every reply of a quota-gated route past the quota check carries the
\* three rate-limit headers: 429, 400, and the 200 or 500 sent once the
\* downstream call settled.
C10_HeadersOnEveryReply ==
    /\ \A route \in Routes, apiKey \in KeyInputs, body \in Bodies, d2 \in LaterReads :
          LET reply == gatedRoute(users, usage, route, apiKey, body, now, d2)
          IN reply.status \in {429, 400} => HasRateHeaders(reply)
    /\ \A p \in BagToSet(pending), resolved \in BOOLEAN :
          HasRateHeaders(DownstreamReply(p.rateHeaders, resolved))

Unknown(apiKey) == apiKey = UndefinedStr \/ apiKey \notin Credentials \cup RegisteredEmails

\* C11: a quota-gated request passes authenticate, then checkAndConsume, then
\* the handler: with a missing or unknown X-API-Key it is answered 401
\* UNAUTHORIZED; its handler reaches the downstream call only when the key
\* resolved to an account and the quota check allowed it; a denied request is
\* answered 429 RATE_LIMIT_EXCEEDED; and the requests in flight are those of
\* accounts, each admitted below its limit.
C11_StagesInOrder ==
    /\ \A apiKey \in KeyInputs, route \in Routes, body \in Bodies, d2 \in LaterReads :
          LET reply == gatedRoute(users, usage, route, apiKey, body, now, d2)
              user == validateApiKey(users, apiKey)
          IN /\ Unknown(apiKey) => reply = Reply401
             /\ reply = Suspended =>
                   user \in Accounts /\ Decision(usage, user, now, d2).allowed
             /\ (~Unknown(apiKey) /\ ~Decision(usage, user, now, d2).allowed) =>
                   reply.status = 429 /\ reply.code = "RATE_LIMIT_EXCEEDED"
    /\ \A p \in BagToSet(pending) : p.user \in Accounts /\ p.slot >= 0

\* C12: a register whose save fails applies nothing: after the step neither
\* mapping holds the email or a credential for it, in memory or on disk, and
\* a retried register is not answered as already existing.
C12_RegisterAllOrNothing ==
    [][ \A email \in RegisterInputs, outcome \in WriteFailures :
          RegisterWriteFails(email, outcome) =>
              /\ ~HasExisting(users', email)
              /\ email \notin DOMAIN users'.byEmail
              /\ DOMAIN users'.byKey = DOMAIN users.byKey
              /\ ~HasExisting(loadJSON(diskUsers', EmptyUsers), email)
              /\ validateApiKey(users', email) = Null ]_vars

\* C13: whenever a save of a mapping is cut short, the next load of that file
\* returns the mapping saved before or the mapping being saved, never the
\* empty default in place of durable data.
C13_CrashConsistent ==
    [][ /\ loadJSON(diskUsers', EmptyUsers)
              \in { loadJSON(diskUsers, EmptyUsers), users' }
        /\ loadJSON(diskUsage', EmptyObject)
              \in { loadJSON(diskUsage, EmptyObject), usage' } ]_vars

\* C14: an email stays bound to the account register first returned for it,
\* across restarts and reloads of the files: a later register or resolve of
\* the email never yields another accountId.
C14_EmailBoundForLife ==
    \A email \in DOMAIN issued :
        /\ RegisterResult(users, minted + 1, email, now).user.userId
              = issued[email].user.userId
        /\ Truthy(validateApiKey(users, email)) =>
              validateApiKey(users, email).userId = issued[email].user.userId

\* C15: an increment made for an allowed request stays: whether the request
\* was then answered 400, 500 or 200, each counter in memory and in the file
\* still holds every increment charged to it, and the count a request in
\* flight was admitted at is still covered.
C15_NoRollback ==
    /\ \A key \in DOMAIN charged :
          /\ Used(usage, key) = charged[key]
          /\ Used(loadJSON(diskUsage, EmptyObject), key) = charged[key]
    /\ \A p \in BagToSet(pending) : Used(usage, p.key) > p.slot

\* all LimitFree requests of a day were allowed and have been answered
C15_Witness ==
    /\ pending = EmptyBag
    /\ \E key \in DOMAIN charged :
          charged[key] = LimitFree /\ calls[key] = LimitFree /\ usage[key] = LimitFree

\* C16: an allowed call of a free-plan account raises the counter by one and
\* reports remaining = limit minus the raised counter; the handler's
\* X-RateLimit-Remaining header carries that value, the one GET /api/usage
\* reports right afterwards.
C16_RemainingAfterIncrement ==
    \A u \in FreeAccounts, d2 \in LaterReads :
        LET dec == Decision(usage, u, now, d2)
            after == Incremented(usage, dec.key, Used(usage, dec.key), dec.allowed)
        IN dec.allowed =>
              /\ Used(after, dec.key) = Used(usage, dec.key) + 1
              /\ dec.remaining = Num(LimitFree - Used(after, dec.key))
              /\ dec.headers["X-RateLimit-Remaining"] = JsString(dec.remaining)
              /\ dec.headers["X-RateLimit-Remaining"]
                    = JsString(getUsage(after, u, now, d2).remaining)

C17_Snapshot ==
    \A u \in FreeAccounts, d2 \in LaterReads :
        LET k == Used(charged, DayKey(u, now))
            snap == getUsage(usage, u, now, d2)
            dec == Decision(usage, u, now, d2)
            after == Incremented(usage, dec.key, Used(usage, dec.key), dec.allowed)
            snapAfter == getUsage(after, u, now, d2)
        IN /\ snap.plan = PlanFree
           /\ snap.used_today = k
           /\ snap.limit = Num(LimitFree)
           /\ snap.remaining = Num(IF k < LimitFree THEN LimitFree - k ELSE 0)
           /\ snapAfter.used_today = dec.used
           /\ snapAfter.limit = dec.limit
           /\ snapAfter.remaining = dec.remaining

C17_ReadOnly ==
    \A apiKey \in KeyInputs, d2 \in LaterReads :
        UsageOk(apiKey, d2) =>
            UNCHANGED <<users, usage, diskUsers, diskUsage, pending, charged>>

\* C17: GET /api/usage changes no usage counter, no identity mapping and no
\* file and consumes no quota; for a free-plan account with k calls allowed
\* today it reports used_today = k, limit = LimitFree and remaining =
\* max(0, LimitFree - k), the values the decision of the last call carried.
C17_PeekReadOnly == []C17_Snapshot /\ [][C17_ReadOnly]_vars

\* three requests of today were allowed and answered
C17_Witness ==
    /\ pending = EmptyBag
    /\ \E u \in FreeAccounts :
          /\ Used(charged, DayKey(u, now)) = 3
          /\ getUsage(usage, u, now, now).used_today = 3

\* C18: the two identity mappings agree and credentials and accounts are
\* one-to-one: every email points to a stored credential whose account has
\* that email, every credential is pointed to by exactly one email, and no
\* two credentials have accounts with the same accountId or the same email.
C18_OneToOne ==
    /\ \A e \in DOMAIN users.byEmail :
          /\ users.byEmail[e] \in DOMAIN users.byKey
          /\ users.byKey[users.byEmail[e]].email = e
    /\ \A k \in DOMAIN users.byKey :
          Cardinality({ e \in DOMAIN users.byEmail : users.byEmail[e] = k }) = 1
    /\ \A k1, k2 \in DOMAIN users.byKey :
          k1 # k2 => /\ users.byKey[k1].userId # users.byKey[k2].userId
                     /\ users.byKey[k1].email # users.byKey[k2].email

\* three accounts are stored, one of them by a register whose save failed
C18_Witness ==
    /\ Cardinality(DOMAIN users.byKey) = 3
    /\ faults = 1
    /\ loadJSON(diskUsers, EmptyUsers) # users

\* C19: the reset time a decision or a snapshot reports is the first UTC
\* midnight after the day its counter key was built from, also when midnight
\* passes between the two clock reads of the call.
C19_ResetMatchesKeyDay ==
    \A u \in Accounts, d2 \in LaterReads :
        /\ Decision(usage, u, now, d2).key = DayKey(u, now)
        /\ Decision(usage, u, now, d2).resetAt = (now + 1) * 86400
        /\ getUsage(usage, u, now, d2).resets_at = (now + 1) * 86400

Changed(old, new) ==
    { k \in DOMAIN old \cup DOMAIN new :
        k \notin DOMAIN old \/ k \notin DOMAIN new \/ old[k] # new[k] }

C20_Step ==
    /\ \A apiKey \in KeyInputs, d2 \in LaterReads :
          Consume(apiKey, d2) =>
              /\ users' = users /\ diskUsers' = diskUsers
              /\ \A key \in Changed(usage, usage') :
                    /\ validateApiKey(users, apiKey) \in Accounts
                    /\ key = DayKey(validateApiKey(users, apiKey), now)
    /\ \A email \in RegisterInputs :
          RegisterNew(email) =>
              /\ usage' = usage /\ diskUsage' = diskUsage
              /\ Changed(users.byEmail, users'.byEmail) = {email}
              /\ Cardinality(Changed(users.byKey, users'.byKey)) = 1
              /\ \A k \in Changed(users.byKey, users'.byKey) :
                    k = users'.byEmail[email] /\ k \notin DOMAIN users.byKey

\* C20: a checkAndConsume of account A on day D changes at most the counter
\* (A, D) and neither identity mapping; a register changes at most the two
\* identity entries of its email, no usage counter and no other account.
C20_IsolatedByKey == [][C20_Step]_vars

\* counters of two accounts and of two days of one account exist side by side
C20_Witness ==
    /\ Cardinality(DOMAIN usage) = 3
    /\ Cardinality(DOMAIN users.byKey) = 3
====
